---- MODULE Spec2Model ----
(***************************************************************************)
(* Model of the image-wrapping editor: App.tsx (palette extraction, the    *)
(* settings owner, uploads, the AI style match), Canvas (mesh shuffle,     *)
(* layout engine, viewport scaling, shadow, drag to reposition), Sidebar   *)
(* (the controls, the light-direction picker) and the constants module.    *)
(*                                                                         *)
(* JavaScript numbers are modelled as exact fractions n/d with d >= 0:     *)
(* d > 0 is a finite number, 1/0 and -1/0 are +Infinity and -Infinity and  *)
(* 0/0 is NaN.  Binary floating-point rounding is not modelled.            *)
(***************************************************************************)
EXTENDS Integers, Sequences, FiniteSets, Bags, TLC

VARIABLES
  settings,        \* App: useState<AppSettings>(DEFAULT_SETTINGS)
  image,           \* App: useState<string | null>(null)
  isProcessingAI,  \* App: useState(false)
  aiPending,       \* analyzeImageForStyle calls awaited by handleMagicClick
  aiResult,        \* what the last settled analyzeImageForStyle call delivered
  imgDimensions,   \* Canvas: useState({ width: 0, height: 0 })
  imgLoading,      \* Canvas: the Image() of the live effect that has not loaded yet
  containerSize,   \* Canvas: useState({ width: 0, height: 0 })
  rgb,             \* toMorandi: the arguments (r, g, b) of the call
  hex,             \* toMorandi: the string returned, <<>> before the call returns
  imageSrc,        \* getImageColors: what the source decodes to
  imgEvent,        \* getImageColors: the handler of img that has run
  colorsPromise,   \* getImageColors: the promise returned
  meshPalette,     \* MeshGradient: the palette prop
  colors,          \* MeshGradient: the array being shuffled
  currentIndex,    \* MeshGradient: currentIndex of the shuffle loop
  currentSeed,     \* MeshGradient: currentSeed of the generator
  shuffled,        \* MeshGradient: the memoised result, <<>> while it is computed
  uploads,         \* App: the handleImageUpload calls that have not finished
  paletteState,    \* App: palette of useState<string[]>([])
  accent,          \* App: the --mac-accent property of the document root
  extractions,     \* App: the getImageColors promises whose then has not run
  isPanning,       \* Canvas: useState(false)
  dragStart,       \* Canvas: useRef({ x: 0, y: 0, pX: 0, pY: 0 })
  shadowStyle      \* Canvas: the box shadow of the card, as its five numbers

vars == <<settings, image, isProcessingAI, aiPending, aiResult,
          imgDimensions, imgLoading, containerSize, rgb, hex,
          imageSrc, imgEvent, colorsPromise,
          meshPalette, colors, currentIndex, currentSeed, shuffled,
          uploads, paletteState, accent, extractions, isPanning, dragStart,
          shadowStyle>>

\* The state of the editor that only the asynchronous image life cycle, the drag
\* and the shadow geometry change.
asyncVars == <<uploads, paletteState, accent, extractions>>

dragVars == <<isPanning, dragStart>>

editorVars == <<asyncVars, dragVars, shadowStyle>>

colorsVars == <<imageSrc, imgEvent, colorsPromise>>

meshVars == <<meshPalette, colors, currentIndex, currentSeed, shuffled>>

appVars == <<settings, image, isProcessingAI, aiPending, aiResult>>

canvasVars == <<imgDimensions, imgLoading, containerSize>>

morandiVars == <<rgb, hex>>

----------------------------------------------------------------------------
(* Numbers *)

Sign(n) == IF n > 0 THEN 1 ELSE IF n < 0 THEN -1 ELSE 0

Abs(n) == IF n < 0 THEN -n ELSE n

RECURSIVE GCD(_, _)
GCD(a, b) == IF b = 0 THEN a ELSE GCD(b, a % b)

\* The fraction n/d in lowest terms with d >= 0.
Num(n, d) ==
  IF d = 0 THEN [n |-> Sign(n), d |-> 0]
  ELSE LET g == GCD(Abs(n), Abs(d))
       IN  [n |-> (Sign(d) * n) \div g, d |-> Abs(d) \div g]

Whole(n) == [n |-> n, d |-> 1]

NaN == [n |-> 0, d |-> 0]

IsNaN(x) == x.n = 0 /\ x.d = 0

IsFinite(x) == x.d > 0

Add(a, b) ==
  IF IsNaN(a) \/ IsNaN(b) THEN NaN
  ELSE IF a.d = 0 /\ b.d = 0 THEN (IF a.n = b.n THEN a ELSE NaN)
  ELSE IF a.d = 0 THEN a
  ELSE IF b.d = 0 THEN b
  ELSE LET g == GCD(a.d, b.d)
       IN  Num(a.n * (b.d \div g) + b.n * (a.d \div g), (a.d \div g) * b.d)

Neg(a) == [n |-> -a.n, d |-> a.d]

Sub(a, b) == Add(a, Neg(b))

Mul(a, b) ==
  IF a.d = 0 \/ b.d = 0 THEN Num(a.n * b.n, a.d * b.d)
  ELSE LET g1 == GCD(Abs(a.n), b.d)
           g2 == GCD(Abs(b.n), a.d)
           h1 == IF g1 = 0 THEN 1 ELSE g1
           h2 == IF g2 = 0 THEN 1 ELSE g2
       IN  Num((a.n \div h1) * (b.n \div h2), (a.d \div h2) * (b.d \div h1))

\* 1/a: 1/0 is +Infinity, 1/Infinity is 0.
Recip(a) ==
  IF a.n = 0 THEN (IF a.d = 0 THEN NaN ELSE [n |-> 1, d |-> 0])
  ELSE Num(Sign(a.n) * a.d, Abs(a.n))

Div(a, b) == Mul(a, Recip(b))

\* a < b as JavaScript compares numbers (false when either is NaN).
Lt(a, b) ==
  /\ ~IsNaN(a)
  /\ ~IsNaN(b)
  /\ IF a.d = 0 /\ b.d = 0 THEN a.n < b.n ELSE a.n * b.d < b.n * a.d

Le(a, b) == ~IsNaN(a) /\ ~IsNaN(b) /\ ~Lt(b, a)

\* Math.min of two numbers.
MathMin(a, b) ==
  IF IsNaN(a) \/ IsNaN(b) THEN NaN ELSE IF Lt(b, a) THEN b ELSE a

\* Math.floor and Math.round (round half up) of a finite number.
MathFloor(a) == a.n \div a.d

MathRound(a) == (2 * a.n + a.d) \div (2 * a.d)

----------------------------------------------------------------------------
(* Math.atan2, Math.cos and Math.sin.  Their values are irrational, so each is
   an enclosure <<lo, hi>> of exact fractions that contains the value; what is
   computed from one (a rounded angle, a rounded offset) is every result the
   enclosure allows. *)

\* 180 / Math.PI lies between these.
DEG_PER_RAD_LO == 57

DEG_PER_RAD_HI == 58

\* atan(num / den) in degrees for 0 <= num <= den, den > 0:
\* t / (1 + t^2) <= atan(t) <= t, atan(0) = 0 and atan(1) = 45 degrees.
AtanDeg(num, den) ==
  IF num = 0 THEN <<Whole(0), Whole(0)>>
  ELSE IF num = den THEN <<Whole(45), Whole(45)>>
  ELSE << Num(DEG_PER_RAD_LO * num * den, den * den + num * num),
          Num(DEG_PER_RAD_HI * num, den) >>

\* The angle of (|dx|, |dy|) in [0, 90].
QuadrantDeg(dy, dx) ==
  IF Abs(dy) <= Abs(dx)
  THEN AtanDeg(Abs(dy), Abs(dx))
  ELSE LET a == AtanDeg(Abs(dx), Abs(dy))
       IN  <<Sub(Whole(90), a[2]), Sub(Whole(90), a[1])>>

\* Math.atan2(dy, dx) * (180 / Math.PI), in (-180, 180]; atan2(0, 0) is 0.
Atan2Deg(dy, dx) ==
  IF dx = 0 /\ dy = 0 THEN <<Whole(0), Whole(0)>>
  ELSE LET q == QuadrantDeg(dy, dx)
       IN  IF dx >= 0 /\ dy >= 0 THEN q
           ELSE IF dx < 0 /\ dy >= 0
                THEN <<Sub(Whole(180), q[2]), Sub(Whole(180), q[1])>>
           ELSE IF dx < 0
                THEN <<Sub(q[1], Whole(180)), Sub(q[2], Whole(180))>>
           ELSE <<Neg(q[2]), Neg(q[1])>>

\* x % 360 for a finite x >= 0.
Mod360(x) == Sub(x, Whole(360 * MathFloor(Div(x, Whole(360)))))

\* Math.SQRT1_2 lies between these.
SQRT1_2_LO == Num(7071, 10000)

SQRT1_2_HI == Num(7072, 10000)

\* Math.cos((deg * Math.PI) / 180) for deg a multiple of 45.
CosDeg(deg) ==
  LET a == deg % 360
  IN  CASE a = 0 -> <<Whole(1), Whole(1)>>
        [] a = 90 \/ a = 270 -> <<Whole(0), Whole(0)>>
        [] a = 180 -> <<Whole(-1), Whole(-1)>>
        [] a = 45 \/ a = 315 -> <<SQRT1_2_LO, SQRT1_2_HI>>
        [] a = 135 \/ a = 225 -> <<Neg(SQRT1_2_HI), Neg(SQRT1_2_LO)>>

\* Math.sin((deg * Math.PI) / 180) for deg a multiple of 45.
SinDeg(deg) == CosDeg(deg + 270)

\* Math.round of every value of the enclosure e scaled by k >= 0.
RoundScaled(e, k) ==
  MathRound(Mul(e[1], k)) .. MathRound(Mul(e[2], k))

----------------------------------------------------------------------------
(* Strings are sequences of one-character strings, so that split and Number
   are computed as the JavaScript functions compute them. *)

AUTO == <<"a", "u", "t", "o">>

DigitValue(c) ==
  CASE c = "0" -> 0 [] c = "1" -> 1 [] c = "2" -> 2 [] c = "3" -> 3
    [] c = "4" -> 4 [] c = "5" -> 5 [] c = "6" -> 6 [] c = "7" -> 7
    [] c = "8" -> 8 [] c = "9" -> 9 [] OTHER -> -1

\* String.prototype.split(sep) for a one-character separator: the pieces
\* between its occurrences, from position i on, piece being the one under way.
RECURSIVE SplitFrom(_, _, _, _)
SplitFrom(str, sep, i, piece) ==
  IF i > Len(str) THEN <<piece>>
  ELSE IF str[i] = sep THEN <<piece>> \o SplitFrom(str, sep, i + 1, <<>>)
  ELSE SplitFrom(str, sep, i + 1, Append(piece, str[i]))

Split(str, sep) == SplitFrom(str, sep, 1, <<>>)

Digits == <<"0", "1", "2", "3", "4", "5", "6", "7", "8", "9">>

\* String(n) for an integer n >= 0.
RECURSIVE DecimalString(_)
DecimalString(n) ==
  IF n < 10 THEN <<Digits[n + 1]>>
  ELSE Append(DecimalString(n \div 10), Digits[(n % 10) + 1])

RECURSIVE DecimalValue(_, _, _)
DecimalValue(str, i, acc) ==
  IF i > Len(str) THEN acc
  ELSE DecimalValue(str, i + 1, 10 * acc + DigitValue(str[i]))

\* Number(parts[k]) for k counted from 1: NaN for a missing part (undefined)
\* or a part with a character that is no digit, 0 for the empty string.
NumberOfPart(parts, k) ==
  IF k > Len(parts) THEN NaN
  ELSE IF \E i \in 1..Len(parts[k]) : DigitValue(parts[k][i]) < 0 THEN NaN
  ELSE Whole(DecimalValue(parts[k], 1, 0))

----------------------------------------------------------------------------
(* constants module *)

GRADIENTS ==
  << "transparent", "Desktop", "Cool", "Nice", "Morning",
     "Bright", "Love", "Rain", "Sky", "Subtle Gray" >>

\* A mutant of RATIOS: the 16:9 button carries its label as its value.
RATIOS_LABEL_AS_VALUE ==
  << AUTO,
     <<"1", "/", "1">>,
     <<"4", "/", "3">>,
     <<"1", "6", ":", "9">>,
     <<"9", "/", "1", "6">> >>

RATIOS ==
  << AUTO,
     <<"1", "/", "1">>,
     <<"4", "/", "3">>,
     <<"1", "6", "/", "9">>,
     <<"9", "/", "1", "6">> >>

DEFAULT_SETTINGS ==
  [ padding        |-> 64,
    inset          |-> 16,
    borderRadius   |-> 32,
    shadow         |-> 40,
    shadowAngle    |-> 135,
    background     |-> GRADIENTS[10],
    aspectRatio    |-> AUTO,
    backgroundType |-> "mesh",
    scale          |-> 100,
    panX           |-> 0,
    panY           |-> 0,
    meshSeed       |-> 1 ]

\* { ...prev, ...newSettings }: the fields of patch override those of prev.
Merge(prev, patch) ==
  [k \in DOMAIN prev |-> IF k \in DOMAIN patch THEN patch[k] ELSE prev[k]]

NoImage == "null"

ZeroSize == [width |-> 0, height |-> 0]

----------------------------------------------------------------------------
(* Canvas: layout engine and viewport scaling *)

ZeroLayout ==
  [exportW |-> Whole(0), exportH |-> Whole(0), cardW |-> Whole(0), cardH |-> Whole(0)]

\* A mutant of the fixed-ratio branch: the height-bound case is not re-derived.
LayoutFixedNoRegrow(cardW, cardH, padding, aspectRatio) ==
  LET parts == Split(aspectRatio, "/")
      targetRatio == Div(NumberOfPart(parts, 1), NumberOfPart(parts, 2))
      minExportW == Add(cardW, Whole(padding * 2))
  IN  [exportW |-> minExportW, exportH |-> Div(minExportW, targetRatio),
       cardW |-> cardW, cardH |-> cardH]

\* A mutant of the fixed-ratio branch: the kept height counts the padding twice
\* per side, so the rectangle contains the card and has the ratio but is loose.
LayoutFixedPaddedTwice(cardW, cardH, padding, aspectRatio) ==
  LET parts == Split(aspectRatio, "/")
      targetRatio == Div(NumberOfPart(parts, 1), NumberOfPart(parts, 2))
      minExportW == Add(cardW, Whole(padding * 2))
      minExportH == Add(cardH, Whole(padding * 2))
      looseH == Add(cardH, Whole(padding * 4))
      exportH0 == Div(minExportW, targetRatio)
  IN  IF Lt(exportH0, minExportH)
      THEN [exportW |-> Mul(looseH, targetRatio), exportH |-> looseH,
            cardW |-> cardW, cardH |-> cardH]
      ELSE [exportW |-> minExportW, exportH |-> exportH0,
            cardW |-> cardW, cardH |-> cardH]

LayoutFixed(cardW, cardH, padding, aspectRatio) ==
  LET parts == Split(aspectRatio, "/")
      rW == NumberOfPart(parts, 1)
      rH == NumberOfPart(parts, 2)
      targetRatio == Div(rW, rH)
      minExportW == Add(cardW, Whole(padding * 2))
      minExportH == Add(cardH, Whole(padding * 2))
      exportW0 == minExportW
      exportH0 == Div(exportW0, targetRatio)
  IN  IF Lt(exportH0, minExportH)
      THEN [exportW |-> Mul(minExportH, targetRatio), exportH |-> minExportH,
            cardW |-> cardW, cardH |-> cardH]
      ELSE [exportW |-> exportW0, exportH |-> exportH0,
            cardW |-> cardW, cardH |-> cardH]

\* A mutant of the auto branch: the padding is added once, not on both sides.
LayoutAutoOnePadding(cardW, cardH, padding) ==
  [exportW |-> Add(cardW, Whole(padding)), exportH |-> Add(cardH, Whole(padding)),
   cardW |-> cardW, cardH |-> cardH]

LayoutAuto(cardW, cardH, padding) ==
  [exportW |-> Add(cardW, Whole(padding * 2)),
   exportH |-> Add(cardH, Whole(padding * 2)),
   cardW |-> cardW, cardH |-> cardH]

\* A mutant of the not-ready guard: only the image is tested, not its size.
LayoutNotReadyImageOnly(img, dims) == img = NoImage

LayoutNotReady(img, dims) == img = NoImage \/ dims.width = 0

\* useMemo(() => ..., [settings, imgDimensions, image])
Layout(s, dims, img) ==
  IF LayoutNotReady(img, dims) THEN ZeroLayout
  ELSE LET displayScale == Num(s.scale, 100)
           imageDisplayW == Mul(Whole(dims.width), displayScale)
           imageDisplayH == Mul(Whole(dims.height), displayScale)
           cardW == Add(imageDisplayW, Whole(s.inset * 2))
           cardH == Add(imageDisplayH, Whole(s.inset * 2))
       IN  IF s.aspectRatio = AUTO
           THEN LayoutAuto(cardW, cardH, s.padding)
           ELSE LayoutFixed(cardW, cardH, s.padding, s.aspectRatio)

FILL == Num(3, 4)

FALLBACK_SCALE == Num(1, 10)

\* A mutant of the scaling: the preview is fitted to the width alone.
ViewportFitWidthOnly(size, l) == Div(Mul(Whole(size.width), FILL), l.exportW)

ViewportFit(size, l) ==
  LET scaleX == Div(Mul(Whole(size.width), FILL), l.exportW)
      scaleY == Div(Mul(Whole(size.height), FILL), l.exportH)
  IN  MathMin(scaleX, scaleY)

\* useMemo(() => ..., [containerSize, layout])
ViewportScale(size, l) ==
  IF size.width = 0 \/ l.exportW = Whole(0) THEN FALLBACK_SCALE
  ELSE ViewportFit(size, l)

layout == Layout(settings, imgDimensions, image)

viewportScale == ViewportScale(containerSize, layout)

----------------------------------------------------------------------------
(* Canvas as a component: its props are drawn from bounded sets, its own
   state changes by its effects (image decoding, viewport measurement). *)

Images == {"img1", "img2"}

\* naturalWidth and naturalHeight of each decoded image.
NaturalSize(img) ==
  IF img = "img1" THEN [width |-> 1000, height |-> 500]
  ELSE [width |-> 600, height |-> 900]

\* Fixed aspect ratios handed to the layout, each with the W and H it spells.
FixedRatioInputs ==
  { [str |-> RATIOS[2], w |-> 1, h |-> 1],
    [str |-> RATIOS[3], w |-> 4, h |-> 3],
    [str |-> RATIOS[4], w |-> 16, h |-> 9],
    [str |-> RATIOS[5], w |-> 9, h |-> 16],
    [str |-> <<"3", "/", "2">>, w |-> 3, h |-> 2],
    [str |-> <<"1", "0", "/", "2", "1">>, w |-> 10, h |-> 21] }

PaddingInputs == {0, 64, 400}

InsetInputs == {0, 16}

ScaleInputs == {10, 100, 150}

MaxContainer == 2

ContainerWidths == {400 * k : k \in 0..MaxContainer}

ContainerHeights == {300 * k : k \in 0..MaxContainer}

LayoutSettingsInputs ==
  { [DEFAULT_SETTINGS EXCEPT !.padding = p, !.inset = i, !.scale = z,
                             !.aspectRatio = a] :
      p \in PaddingInputs, i \in InsetInputs, z \in ScaleInputs,
      a \in {AUTO} \cup {r.str : r \in FixedRatioInputs} }

MorandiIdle == rgb = <<0, 0, 0>> /\ hex = <<>>

\* new Promise((resolve) => ...) before and after resolve({ dominant, palette })
PendingPromise == [status |-> "pending", dominant |-> <<>>, palette |-> <<>>]

Resolve(dominant, palette) ==
  [status |-> "fulfilled", dominant |-> dominant, palette |-> palette]

ColorsIdle ==
  /\ imageSrc = [decodes |-> FALSE, surface |-> FALSE, data |-> <<>>]
  /\ imgEvent = "none"
  /\ colorsPromise = PendingPromise

MeshIdle ==
  /\ meshPalette = <<>>
  /\ colors = <<>>
  /\ currentIndex = 0
  /\ currentSeed = 0
  /\ shuffled = <<>>

CanvasIdle ==
  /\ imgDimensions = ZeroSize
  /\ imgLoading = NoImage
  /\ containerSize = ZeroSize

AppIdle ==
  /\ isProcessingAI = FALSE
  /\ aiPending = 0
  /\ aiResult = "none"

\* root.style.setProperty('--mac-accent', 'rgba(0, 0, 0, 0.5)'): a colour that is
\* no "#rrggbb" string, kept as a sequence like the colours of the palette.
DEFAULT_ACCENT == <<"rgba(0, 0, 0, 0.5)">>

\* No upload and no palette extraction under way, the palette and the accent of
\* the effect run without an image, no drag, the shadow not yet computed.
EditorIdle ==
  /\ uploads = <<>>
  /\ paletteState = <<>>
  /\ accent = DEFAULT_ACCENT
  /\ extractions = <<>>
  /\ isPanning = FALSE
  /\ dragStart = [x |-> 0, y |-> 0, pX |-> 0, pY |-> 0]
  /\ shadowStyle = <<>>

InitLayout ==
  /\ settings \in LayoutSettingsInputs
  /\ image = NoImage
  /\ imgDimensions = ZeroSize
  /\ imgLoading = NoImage
  /\ containerSize = ZeroSize
  /\ AppIdle
  /\ EditorIdle
  /\ MorandiIdle
  /\ ColorsIdle
  /\ MeshIdle

\* The image prop changes; the effect of [image] runs: a missing image zeroes
\* the dimensions, a new one starts decoding (the cleanup of the previous
\* effect makes a load still under way a no-op).
CanvasImageEffect(img) ==
  IF img = NoImage
  THEN imgDimensions' = ZeroSize /\ imgLoading' = NoImage
  ELSE imgDimensions' = imgDimensions /\ imgLoading' = img

CanvasSetImage ==
  \E img \in Images \cup {NoImage} :
    /\ img # image
    /\ image' = img
    /\ CanvasImageEffect(img)
    /\ UNCHANGED <<settings, containerSize, isProcessingAI, aiPending, aiResult>>
    /\ UNCHANGED <<morandiVars, colorsVars, meshVars, editorVars>>

\* img.onload of the live effect.
ImgOnload ==
  /\ imgLoading # NoImage
  /\ imgDimensions' = NaturalSize(imgLoading)
  /\ imgLoading' = NoImage
  /\ UNCHANGED <<settings, image, containerSize, isProcessingAI, aiPending, aiResult>>
  /\ UNCHANGED <<morandiVars, colorsVars, meshVars, editorVars>>

\* updateSize, on mount and from the ResizeObserver and the resize listener.
UpdateSize ==
  \E w \in ContainerWidths, h \in ContainerHeights :
    /\ containerSize' = [width |-> w, height |-> h]
    /\ UNCHANGED <<settings, image, imgDimensions, imgLoading,
                   isProcessingAI, aiPending, aiResult>>
    /\ UNCHANGED <<morandiVars, colorsVars, meshVars, editorVars>>

NextLayout == CanvasSetImage \/ ImgOnload \/ UpdateSize

SpecLayout == InitLayout /\ [][NextLayout]_vars

LayoutReady == image # NoImage /\ imgDimensions.width # 0

MinExportW == Add(layout.cardW, Whole(2 * settings.padding))

MinExportH == Add(layout.cardH, Whole(2 * settings.padding))

\* C2: with a fixed aspect ratio W/H and a ready image, exportW / exportH is W/H
\* and the export rectangle is at least the card plus the padding on each axis.
FixedRatioContainsCard ==
  \A r \in FixedRatioInputs :
    (LayoutReady /\ settings.aspectRatio = r.str) =>
      /\ Div(layout.exportW, layout.exportH) = Num(r.w, r.h)
      /\ Le(MinExportW, layout.exportW)
      /\ Le(MinExportH, layout.exportH)

\* C2 witness: a fixed ratio for which the height had to be kept and the width grown.
FixedRatioWidthGrown ==
  /\ LayoutReady
  /\ settings.aspectRatio = RATIOS[4]
  /\ image = "img2"
  /\ layout.exportH = MinExportH
  /\ Lt(MinExportW, layout.exportW)

\* C3: with aspectRatio 'auto' and a ready image the card is the scaled image plus
\* the inset on both sides and the export is the card plus the padding on both
\* sides; 1000x500 at scale 100, inset 16, padding 64 is card 1032x532, export 1160x660.
AutoLayoutExact ==
  (LayoutReady /\ settings.aspectRatio = AUTO) =>
    /\ layout.cardW = Num(imgDimensions.width * settings.scale + 200 * settings.inset, 100)
    /\ layout.cardH = Num(imgDimensions.height * settings.scale + 200 * settings.inset, 100)
    /\ layout.exportW = Add(layout.cardW, Whole(2 * settings.padding))
    /\ layout.exportH = Add(layout.cardH, Whole(2 * settings.padding))
    /\ (settings = DEFAULT_SETTINGS /\ imgDimensions = [width |-> 1000, height |-> 500]) =>
         layout = [cardW |-> Whole(1032), cardH |-> Whole(532),
                   exportW |-> Whole(1160), exportH |-> Whole(660)]

\* C3 witness: scenario A, the default settings on the decoded 1000x500 image.
AutoScenarioA ==
  /\ image = "img1"
  /\ imgDimensions = [width |-> 1000, height |-> 500]
  /\ settings = DEFAULT_SETTINGS
  /\ layout.exportW = Whole(1160)

ContainerW == Mul(Whole(containerSize.width), FILL)

ContainerH == Mul(Whole(containerSize.height), FILL)

\* C4: for a container and an export size with no zero side, the scaled export
\* fits in FILL x container on both axes and touches it on at least one.
ViewportFits ==
  ( /\ containerSize.width # 0 /\ containerSize.height # 0
    /\ layout.exportW # Whole(0) /\ layout.exportH # Whole(0) ) =>
      /\ Le(Mul(viewportScale, layout.exportW), ContainerW)
      /\ Le(Mul(viewportScale, layout.exportH), ContainerH)
      /\ \/ Mul(viewportScale, layout.exportW) = ContainerW
         \/ Mul(viewportScale, layout.exportH) = ContainerH

\* C4 witness: a preview bound by the container's height, with room left in width.
ViewportHeightBound ==
  /\ containerSize.width # 0 /\ containerSize.height # 0
  /\ LayoutReady
  /\ Mul(viewportScale, layout.exportH) = ContainerH
  /\ Lt(Mul(viewportScale, layout.exportW), ContainerW)

\* C7: without an image, or with a natural size that has a zero side, the layout
\* is all-zero whatever padding, inset, scale and aspectRatio are.
NotReadyLayoutZero ==
  (image = NoImage \/ imgDimensions.width = 0 \/ imgDimensions.height = 0) =>
    layout = ZeroLayout

\* C7 witness: an image is set and is not decoded yet, under non-default settings.
NotDecodedYet ==
  /\ image # NoImage
  /\ imgDimensions = ZeroSize
  /\ settings.aspectRatio # AUTO
  /\ settings.padding # 0
  /\ layout = ZeroLayout

\* C8: a container or an export size with a zero side gives the fallback scale 0.1.
ZeroSideGivesFallback ==
  ( \/ containerSize.width = 0 \/ containerSize.height = 0
    \/ layout.exportW = Whole(0) \/ layout.exportH = Whole(0) ) =>
      viewportScale = FALLBACK_SCALE

\* C21: with a fixed aspect ratio W/H and a ready image the export rectangle is
\* tight: exportW is the minimum width or exportH is the minimum height. The
\* width is kept and the height grown to minW * H / W when that candidate height
\* reaches the minimum height, otherwise the height is kept and the width grown
\* to minH * W / H; each side is therefore the larger of its minimum and of what
\* the other minimum asks for, the smallest rectangle of the ratio around the
\* minimum box. A minimum of 1160x660 with ratio 1/1 gives 1160x1160.
FixedRatioTight ==
  \A r \in FixedRatioInputs :
    (LayoutReady /\ settings.aspectRatio = r.str) =>
      LET l == layout
          minW == Add(l.cardW, Whole(2 * settings.padding))
          minH == Add(l.cardH, Whole(2 * settings.padding))
          candidateH == Mul(minW, Num(r.h, r.w))
          candidateW == Mul(minH, Num(r.w, r.h))
      IN  /\ l.exportW = minW \/ l.exportH = minH
          /\ IF Le(minH, candidateH)
             THEN l.exportW = minW /\ l.exportH = candidateH
             ELSE l.exportH = minH /\ l.exportW = candidateW
          /\ l.exportW = (IF Lt(minW, candidateW) THEN candidateW ELSE minW)
          /\ l.exportH = (IF Lt(minH, candidateH) THEN candidateH ELSE minH)
          /\ (minW = Whole(1160) /\ minH = Whole(660) /\ r.str = RATIOS[2]) =>
               (l.exportW = Whole(1160) /\ l.exportH = Whole(1160))

\* C21 witness: the 1000x500 image under the default inset, padding and scale with
\* ratio 1/1: the minimum box is 1160x660 and the height has been grown to 1160.
SquareScenarioHeightGrown ==
  /\ image = "img1"
  /\ imgDimensions = [width |-> 1000, height |-> 500]
  /\ settings = [DEFAULT_SETTINGS EXCEPT !.aspectRatio = RATIOS[2]]
  /\ MinExportW = Whole(1160)
  /\ MinExportH = Whole(660)
  /\ layout.exportW = Whole(1160)
  /\ layout.exportH = Whole(1160)

----------------------------------------------------------------------------
(* App.tsx: rgbToHsl, hslToHex, toMorandi *)

MaxNum(a, b) == IF Lt(a, b) THEN b ELSE a

MinNum(a, b) == IF Lt(b, a) THEN b ELSE a

RgbToHsl(r0, g0, b0) ==
  LET r == Num(r0, 255)
      g == Num(g0, 255)
      b == Num(b0, 255)
      max == MaxNum(r, MaxNum(g, b))
      min == MinNum(r, MinNum(g, b))
      l == Div(Add(max, min), Whole(2))
      d == Sub(max, min)
      s == IF Lt(Num(1, 2), l)
           THEN Div(d, Sub(Sub(Whole(2), max), min))
           ELSE Div(d, Add(max, min))
      h6 == IF max = r THEN Add(Div(Sub(g, b), d), Whole(IF Lt(g, b) THEN 6 ELSE 0))
            ELSE IF max = g THEN Add(Div(Sub(b, r), d), Whole(2))
            ELSE Add(Div(Sub(r, g), d), Whole(4))
  IN  IF max = min THEN [h |-> Whole(0), s |-> Whole(0), l |-> l]
      ELSE [h |-> Div(h6, Whole(6)), s |-> s, l |-> l]

Hue2Rgb(p, q, t0) ==
  LET t1 == IF Lt(t0, Whole(0)) THEN Add(t0, Whole(1)) ELSE t0
      t == IF Lt(Whole(1), t1) THEN Sub(t1, Whole(1)) ELSE t1
  IN  IF Lt(t, Num(1, 6)) THEN Add(p, Mul(Mul(Sub(q, p), Whole(6)), t))
      ELSE IF Lt(t, Num(1, 2)) THEN q
      ELSE IF Lt(t, Num(2, 3)) THEN Add(p, Mul(Mul(Sub(q, p), Sub(Num(2, 3), t)), Whole(6)))
      ELSE p

HexDigits ==
  <<"0", "1", "2", "3", "4", "5", "6", "7", "8", "9", "a", "b", "c", "d", "e", "f">>

\* x.toString(16), zero-padded to two digits.
ToHex(x) ==
  IF x < 16 THEN <<"0", HexDigits[x + 1]>>
  ELSE <<HexDigits[(x \div 16) + 1], HexDigits[(x % 16) + 1]>>

HslToHex(h, s, l) ==
  LET q == IF Lt(l, Num(1, 2)) THEN Mul(l, Add(Whole(1), s))
           ELSE Sub(Add(l, s), Mul(l, s))
      p == Sub(Mul(Whole(2), l), q)
      r == MathRound(Mul(Hue2Rgb(p, q, Add(h, Num(1, 3))), Whole(255)))
      g == MathRound(Mul(Hue2Rgb(p, q, h), Whole(255)))
      b == MathRound(Mul(Hue2Rgb(p, q, Sub(h, Num(1, 3))), Whole(255)))
  IN  <<"#">> \o ToHex(r) \o ToHex(g) \o ToHex(b)

\* A mutant of the saturation remap: the source saturation is not capped at 0.5.
NewSaturationUncapped(s) == Add(Num(5, 100), Mul(s, Num(20, 100)))

\* newS = 0.05 + (Math.min(s, 0.5) * 0.20)
NewSaturation(s) == Add(Num(5, 100), Mul(MathMin(s, Num(1, 2)), Num(20, 100)))

\* newL = 0.75 + (Math.min(l, 1) * 0.10)
NewLightness(l) == Add(Num(75, 100), Mul(MathMin(l, Whole(1)), Num(10, 100)))

ToMorandi(r, g, b) ==
  LET hsl == RgbToHsl(r, g, b)
  IN  HslToHex(hsl.h, NewSaturation(hsl.s), NewLightness(hsl.l))

----------------------------------------------------------------------------
(* toMorandi applied to channel values drawn from a bounded set *)

BIN == 32

\* The bucket floors getImageColors passes, the largest 8-bit value and values
\* between them.
ChannelInputs == {BIN * k : k \in 0..7} \cup {255, 10, 200}

InitMorandi ==
  /\ rgb \in ChannelInputs \X ChannelInputs \X ChannelInputs
  /\ hex = <<>>
  /\ settings = DEFAULT_SETTINGS
  /\ image = NoImage
  /\ AppIdle
  /\ EditorIdle
  /\ CanvasIdle
  /\ ColorsIdle
  /\ MeshIdle

CallToMorandi ==
  /\ hex = <<>>
  /\ hex' = ToMorandi(rgb[1], rgb[2], rgb[3])
  /\ UNCHANGED <<rgb, appVars, editorVars, canvasVars, colorsVars, meshVars>>

NextMorandi == CallToMorandi

SpecMorandi == InitMorandi /\ [][NextMorandi]_vars

HexValue(c) == CHOOSE k \in 0..15 : HexDigits[k + 1] = c

\* The channel values a '#rrggbb' string spells.
HexToRgb(str) ==
  << 16 * HexValue(str[2]) + HexValue(str[3]),
     16 * HexValue(str[4]) + HexValue(str[5]),
     16 * HexValue(str[6]) + HexValue(str[7]) >>

HslOfHex(str) ==
  LET c == HexToRgb(str) IN RgbToHsl(c[1], c[2], c[3])

Between(lo, x, hi) == Le(lo, x) /\ Le(x, hi)

\* C6 as stated: the colour toMorandi returns has saturation in [0.05, 0.15]
\* and lightness in [0.75, 0.85].
ReturnedColourInBand ==
  hex # <<>> =>
    /\ Between(Num(5, 100), HslOfHex(hex).s, Num(15, 100))
    /\ Between(Num(75, 100), HslOfHex(hex).l, Num(85, 100))

\* C6 amended: the saturation and lightness toMorandi encodes are in [0.05, 0.15]
\* and [0.75, 0.85]; rounding each channel to 8 bits keeps the returned colour's
\* own saturation in [0.03, 0.17] and its lightness in [0.745, 0.855].
MorandiBandBeforeEncoding ==
  hex # <<>> =>
    LET hsl == RgbToHsl(rgb[1], rgb[2], rgb[3])
    IN  /\ Between(Num(5, 100), NewSaturation(hsl.s), Num(15, 100))
        /\ Between(Num(75, 100), NewLightness(hsl.l), Num(85, 100))
        /\ hex = HslToHex(hsl.h, NewSaturation(hsl.s), NewLightness(hsl.l))
        /\ Between(Num(3, 100), HslOfHex(hex).s, Num(17, 100))
        /\ Between(Num(745, 1000), HslOfHex(hex).l, Num(855, 1000))

\* C6 witness: toMorandi has returned a colour whose own saturation left the band.
EncodedColourOffBand ==
  /\ hex # <<>>
  /\ ~Between(Num(5, 100), HslOfHex(hex).s, Num(15, 100))

----------------------------------------------------------------------------
(* App.tsx: getImageColors *)

FALLBACK_DOMINANT == <<"#", "e", "5", "e", "5", "e", "5">>

defaultMorandi ==
  << <<"#", "e", "2", "e", "4", "e", "9">>,
     <<"#", "d", "b", "e", "a", "f", "e">>,
     <<"#", "f", "3", "e", "8", "f", "f">>,
     <<"#", "f", "a", "e", "8", "f", "f">>,
     <<"#", "e", "0", "f", "2", "f", "e">> >>

ALPHA_MIN == 128

BRIGHTNESS_MIN == 60

BRIGHTNESS_MAX == 230

PALETTE_SIZE == 5

\* A mutant of the filters: the test of alpha is dropped.
PixelSkippedIgnoresAlpha(px) ==
  \/ Lt(Num(px.r + px.g + px.b, 3), Whole(BRIGHTNESS_MIN))
  \/ Lt(Whole(BRIGHTNESS_MAX), Num(px.r + px.g + px.b, 3))

\* The pixel is left out of the count: transparent, near black or near white.
PixelSkipped(px) ==
  \/ px.a < ALPHA_MIN
  \/ Lt(Num(px.r + px.g + px.b, 3), Whole(BRIGHTNESS_MIN))
  \/ Lt(Whole(BRIGHTNESS_MAX), Num(px.r + px.g + px.b, 3))

Floor32(v) == MathFloor(Num(v, BIN)) * BIN

\* `${rB},${gB},${bB}`
BinKey(px) ==
  DecimalString(Floor32(px.r)) \o <<",">> \o DecimalString(Floor32(px.g))
    \o <<",">> \o DecimalString(Floor32(px.b))

\* colorCounts[key] = (colorCounts[key] || 0) + 1; a new key goes last, as the
\* own string keys of an object are enumerated in insertion order.
CountKey(counts, key) ==
  IF \E i \in 1..Len(counts) : counts[i].key = key
  THEN [i \in 1..Len(counts) |->
          IF counts[i].key = key
          THEN [key |-> key, count |-> counts[i].count + 1]
          ELSE counts[i]]
  ELSE Append(counts, [key |-> key, count |-> 1])

\* 1. Quantize and Count, from pixel i on.
RECURSIVE QuantizeAndCount(_, _, _)
QuantizeAndCount(data, i, counts) ==
  IF i > Len(data) THEN counts
  ELSE IF PixelSkipped(data[i]) THEN QuantizeAndCount(data, i + 1, counts)
  ELSE QuantizeAndCount(data, i + 1, CountKey(counts, BinKey(data[i])))

RemoveAt(seq, i) == SubSeq(seq, 1, i - 1) \o SubSeq(seq, i + 1, Len(seq))

\* Array.prototype.sort(([, a], [, b]) => b - a): by count, largest first,
\* equal counts in their earlier order (the sort is stable).
RECURSIVE SortByCount(_)
SortByCount(entries) ==
  IF entries = <<>> THEN <<>>
  ELSE LET first == CHOOSE i \in 1..Len(entries) :
                      /\ \A j \in 1..Len(entries) : entries[j].count <= entries[i].count
                      /\ \A j \in 1..(i - 1) : entries[j].count < entries[i].count
       IN  <<entries[first]>> \o SortByCount(RemoveAt(entries, first))

\* color.split(',').map(Number), then toMorandi
KeyToMorandi(key) ==
  LET parts == Split(key, ",")
  IN  ToMorandi(NumberOfPart(parts, 1).n, NumberOfPart(parts, 2).n,
                NumberOfPart(parts, 3).n)

\* 2. Sort by frequency
SortedColors(counts) ==
  LET sorted == SortByCount(counts)
  IN  [i \in 1..Len(sorted) |-> KeyToMorandi(sorted[i].key)]

\* A mutant of isDistinct: every candidate counts as distinct.
isDistinctAlways(c1, c2) == TRUE

isDistinct(c1, c2) == c1 # c2

\* 3. Pick distinct colors: the loop from index i on.
RECURSIVE PickDistinctFrom(_, _, _)
PickDistinctFrom(sortedColors, i, palette) ==
  IF i > Len(sortedColors) \/ Len(palette) >= PALETTE_SIZE THEN palette
  ELSE IF \A k \in 1..Len(palette) : isDistinct(palette[k], sortedColors[i])
       THEN PickDistinctFrom(sortedColors, i + 1, Append(palette, sortedColors[i]))
       ELSE PickDistinctFrom(sortedColors, i + 1, palette)

PickDistinct(sortedColors) ==
  PickDistinctFrom(sortedColors, 2,
                   IF Len(sortedColors) > 0 THEN <<sortedColors[1]>> ELSE <<>>)

\* A mutant of the fallback loop: it fills up to four colours, not five.
RECURSIVE FillFallbacksShort(_, _)
FillFallbacksShort(palette, fillIdx) ==
  IF Len(palette) >= PALETTE_SIZE - 1 THEN palette
  ELSE FillFallbacksShort(
         Append(palette, defaultMorandi[(fillIdx % Len(defaultMorandi)) + 1]),
         fillIdx + 1)

\* Fallbacks: while (palette.length < 5) palette.push(defaultMorandi[fillIdx++ % 5])
RECURSIVE FillFallbacks(_, _)
FillFallbacks(palette, fillIdx) ==
  IF Len(palette) >= PALETTE_SIZE THEN palette
  ELSE FillFallbacks(Append(palette, defaultMorandi[(fillIdx % Len(defaultMorandi)) + 1]),
                     fillIdx + 1)

\* img.onload: the promise as the handler leaves it.
OnLoadResolution(src) ==
  IF ~src.surface THEN Resolve(FALLBACK_DOMINANT, <<>>)
  ELSE LET counts == QuantizeAndCount(src.data, 1, <<>>)
           palette == FillFallbacks(PickDistinct(SortedColors(counts)), 0)
       IN  Resolve(palette[1], palette)

\* A mutant of img.onerror: the handler does not resolve the promise.
OnErrorNoResolve == PendingPromise

\* img.onerror: the promise as the handler leaves it.
OnErrorResolution == Resolve(FALLBACK_DOMINANT, <<>>)

----------------------------------------------------------------------------
(* getImageColors called on sources drawn from a bounded set *)

Pixel(r, g, b, a) == [r |-> r, g |-> g, b |-> b, a |-> a]

\* Sampled pixels: two of one bucket, other mid-tones, near black, near white,
\* transparent, and pixels on the thresholds of the filters (alpha 128 with mean
\* brightness 60, mean brightness 230).
PixelInputs ==
  { Pixel(200, 100, 50, 255), Pixel(210, 110, 60, 255), Pixel(50, 100, 200, 255),
    Pixel(128, 128, 128, 255), Pixel(0, 0, 0, 255), Pixel(255, 255, 255, 255),
    Pixel(200, 100, 50, 0), Pixel(60, 60, 60, 128), Pixel(230, 230, 230, 255) }

MaxPixels == 3

RECURSIVE SeqsUpTo(_, _)
SeqsUpTo(S, n) ==
  IF n = 0 THEN {<<>>}
  ELSE LET shorter == SeqsUpTo(S, n - 1)
       IN  shorter \cup {Append(q, x) : q \in shorter, x \in S}

\* A source that fails to decode, and for every sampled content a source that
\* decodes, with and without a 2d context to sample it on.
ImageSrcInputs ==
  {[decodes |-> FALSE, surface |-> TRUE, data |-> <<>>]}
    \cup {[decodes |-> TRUE, surface |-> c, data |-> d] :
            c \in BOOLEAN, d \in SeqsUpTo(PixelInputs, MaxPixels)}

InitColors ==
  /\ imageSrc \in ImageSrcInputs
  /\ imgEvent = "none"
  /\ colorsPromise = PendingPromise
  /\ settings = DEFAULT_SETTINGS
  /\ image = NoImage
  /\ AppIdle
  /\ EditorIdle
  /\ CanvasIdle
  /\ MorandiIdle
  /\ MeshIdle

\* img.onload
ColorsOnLoad ==
  /\ imgEvent = "none"
  /\ imageSrc.decodes
  /\ imgEvent' = "load"
  /\ colorsPromise' = OnLoadResolution(imageSrc)
  /\ UNCHANGED <<imageSrc, appVars, editorVars, canvasVars, morandiVars, meshVars>>

\* img.onerror
ColorsOnError ==
  /\ imgEvent = "none"
  /\ ~imageSrc.decodes
  /\ imgEvent' = "error"
  /\ colorsPromise' = OnErrorResolution
  /\ UNCHANGED <<imageSrc, appVars, editorVars, canvasVars, morandiVars, meshVars>>

NextColors == ColorsOnLoad \/ ColorsOnError

SpecColors == InitColors /\ [][NextColors]_vars

ColorsResolved == colorsPromise.status = "fulfilled"

ColorsSampled == imgEvent = "load" /\ imageSrc.surface

\* C1 as stated: every source, a failed decode and a missing sampling surface
\* included, resolves with a palette of exactly 5 colours.
PaletteAlwaysFive ==
  ColorsResolved => Len(colorsPromise.palette) = 5

\* C1 amended: a source that decodes and is sampled (solid, fully transparent or
\* mixed) resolves with a palette of exactly 5 colours; a failed decode or a
\* missing sampling surface resolves with the empty palette.
PaletteFiveWhenSampled ==
  ColorsResolved =>
    Len(colorsPromise.palette) = (IF ColorsSampled THEN 5 ELSE 0)

\* C1 witness: a fully transparent image resolved with five colours.
TransparentImageFive ==
  /\ ColorsResolved
  /\ ColorsSampled
  /\ Len(imageSrc.data) > 0
  /\ \A i \in 1..Len(imageSrc.data) : imageSrc.data[i].a = 0
  /\ Len(colorsPromise.palette) = 5

\* C9: once img.onload or img.onerror has run the promise is resolved, and a
\* failed decode or a missing sampling surface resolves it with the empty
\* palette and the dominant colour '#e5e5e5'.
ColorsNeverPending ==
  /\ imgEvent # "none" => ColorsResolved
  /\ (imgEvent = "error" \/ (imgEvent = "load" /\ ~imageSrc.surface)) =>
       colorsPromise = Resolve(FALLBACK_DOMINANT, <<>>)

\* C9 witness: the decode failed and the promise holds the fallback.
DecodeFailedResolved ==
  /\ imgEvent = "error"
  /\ colorsPromise = Resolve(FALLBACK_DOMINANT, <<>>)

----------------------------------------------------------------------------
(* Canvas: MeshGradient *)

MESH_FALLBACK ==
  << <<"#", "e", "e", "f", "2", "f", "f">>,
     <<"#", "f", "0", "f", "d", "f", "4">>,
     <<"#", "f", "f", "f", "1", "f", "2">>,
     <<"#", "f", "a", "f", "a", "f", "9">>,
     <<"#", "f", "5", "f", "3", "f", "f">> >>

\* const p = palette.length >= 3 ? palette : [...]
SafePalette(palette) == IF Len(palette) >= 3 THEN palette ELSE MESH_FALLBACK

\* while (colors.length < 5) colors.push(colors[colors.length % colors.length])
RECURSIVE PadColors(_)
PadColors(cs) ==
  IF Len(cs) >= 5 THEN cs
  ELSE PadColors(Append(cs, cs[(Len(cs) % Len(cs)) + 1]))

\* A mutant of the swap: the element drawn is copied, the other one is lost.
OverwriteAt(cs, i, j) == [cs EXCEPT ![i] = cs[j]]

\* [colors[i], colors[j]] = [colors[j], colors[i]], positions counted from 1
SwapAt(cs, i, j) == [cs EXCEPT ![i] = cs[j], ![j] = cs[i]]

----------------------------------------------------------------------------
(* The shuffle of MeshGradient on palettes and seeds drawn from bounded sets.
   random() is the fractional part of Math.sin(currentSeed++) * 10000, a value
   in [0, 1); the sine is not computed: every value of a grid of [0, 1) may be
   drawn. *)

MaxMeshLen == 5

MaxSeed == 2

RandomGrid == 12

RandomDraws == {Num(k, RandomGrid) : k \in 0..(RandomGrid - 1)}

\* '#111111', '#222222', ...: pairwise different colours.
MeshColor(k) == <<"#">> \o [i \in 1..6 |-> HexDigits[k + 1]]

\* Palettes of pairwise different colours of every length up to MaxMeshLen, and
\* palettes that repeat a colour.
MeshPaletteInputs ==
  {[i \in 1..n |-> MeshColor(i)] : n \in 0..MaxMeshLen}
    \cup { <<MeshColor(1), MeshColor(1)>>,
           <<MeshColor(1), MeshColor(2), MeshColor(1)>>,
           <<MeshColor(2), MeshColor(1), MeshColor(2), MeshColor(3)>> }

InitMesh ==
  /\ meshPalette \in MeshPaletteInputs
  /\ settings \in {[DEFAULT_SETTINGS EXCEPT !.meshSeed = k] : k \in 1..MaxSeed}
  /\ colors = <<>>
  /\ currentIndex = 0
  /\ currentSeed = 0
  /\ shuffled = <<>>
  /\ image = NoImage
  /\ AppIdle
  /\ EditorIdle
  /\ CanvasIdle
  /\ MorandiIdle
  /\ ColorsIdle

\* The memo callback starts: the copy, the padding, the loop variables.
MeshStart ==
  /\ colors = <<>>
  /\ colors' = PadColors(SafePalette(meshPalette))
  /\ currentIndex' = Len(colors')
  /\ currentSeed' = settings.meshSeed
  /\ UNCHANGED <<meshPalette, shuffled, appVars, editorVars, canvasVars, morandiVars, colorsVars>>

\* One turn of while (currentIndex !== 0).
MeshSwap ==
  /\ colors # <<>>
  /\ shuffled = <<>>
  /\ currentIndex # 0
  /\ \E x \in RandomDraws :
       LET randomIndex == MathFloor(Mul(x, Whole(currentIndex)))
       IN  /\ currentSeed' = currentSeed + 1
           /\ currentIndex' = currentIndex - 1
           /\ colors' = SwapAt(colors, currentIndex, randomIndex + 1)
  /\ UNCHANGED <<meshPalette, shuffled, appVars, editorVars, canvasVars, morandiVars, colorsVars>>

\* return colors
MeshReturn ==
  /\ colors # <<>>
  /\ shuffled = <<>>
  /\ currentIndex = 0
  /\ shuffled' = colors
  /\ UNCHANGED <<meshPalette, colors, currentIndex, currentSeed,
                 appVars, editorVars, canvasVars, morandiVars, colorsVars>>

NextMesh == MeshStart \/ MeshSwap \/ MeshReturn

SpecMesh == InitMesh /\ [][NextMesh]_vars

Count(seq, c) == Cardinality({i \in 1..Len(seq) : seq[i] = c})

Range(seq) == {seq[i] : i \in 1..Len(seq)}

\* seq is a permutation of base followed by extra more copies of its first entry.
PermutationOfPadded(seq, base, extra) ==
  /\ Len(seq) = Len(base) + extra
  /\ \A c \in Range(seq) \cup Range(base) :
       Count(seq, c) = Count(base, c) + (IF c = base[1] THEN extra ELSE 0)

Missing(palette) == IF Len(palette) >= 5 THEN 0 ELSE 5 - Len(palette)

\* C5 as stated: for every palette the result is a permutation of the input
\* palette padded by repetition to at least 5 entries.
ShuffleOfInput ==
  shuffled # <<>> =>
    /\ meshPalette # <<>>
    /\ PermutationOfPadded(shuffled, meshPalette, Missing(meshPalette))

\* C5 amended: for a palette of at least 3 colours the result is a permutation of
\* the palette followed by copies of its first colour up to 5 entries; a shorter
\* palette is replaced by the fixed five-colour fallback list, and the result is
\* a permutation of that list.
ShuffleOfSafePalette ==
  shuffled # <<>> =>
    IF Len(meshPalette) >= 3
    THEN PermutationOfPadded(shuffled, meshPalette, Missing(meshPalette))
    ELSE PermutationOfPadded(shuffled, MESH_FALLBACK, 0)

\* C5 witness: a padded palette of 3 colours came back in another order.
ShuffledThree ==
  /\ Len(meshPalette) = 3
  /\ shuffled # <<>>
  /\ shuffled # PadColors(meshPalette)
  /\ currentSeed = settings.meshSeed + 5

----------------------------------------------------------------------------
(* The editor: App owns settings, image and isProcessingAI; Sidebar and Canvas
   change them through updateSettings, onMagicClick, onReset and onUpload. *)

hasImage == image # NoImage

isAuto == settings.aspectRatio = AUTO

\* setSettings(prev => ({ ...prev, ...newSettings }))
handleUpdateSettings(prev, newSettings) == Merge(prev, newSettings)

\* The values each slider is moved to.
SliderInputs ==
  [ padding |-> {0, 64}, inset |-> {0, 16}, borderRadius |-> {0, 32},
    shadow |-> {40, 60} ]

\* Where the pointer is when the light-direction control handles it, as offsets
\* from the centre of the control: on its rim (top right, bottom left) and, the
\* button held, dragged 200 px to the left and 1 px below the centre.
PointerInputs ==
  { [dx |-> 1, dy |-> -1], [dx |-> -1, dy |-> 1], [dx |-> -200, dy |-> 1] }

\* ShadowAnglePicker: const lightAngle = (value + 180) % 360
lightAngle(value) == (value + 180) % 360

\* ShadowAnglePicker.handleInteraction: what onChange is called with, every
\* value the enclosure of atan2 allows.
handleInteraction(dx, dy) ==
  LET e == Atan2Deg(dy, dx)
      Positive(x) == IF Lt(x, Whole(0)) THEN Add(x, Whole(360)) ELSE x
      Emitted(x) == MathRound(Mod360(Add(Positive(x), Whole(180))))
  IN  IF Emitted(e[1]) <= Emitted(e[2])
      THEN Emitted(e[1]) .. Emitted(e[2])
      ELSE 0 .. 360

ZoomInputs == {100, 150}

CustomColorInputs == {"#000000"}

\* The preset buttons clicked: the first MaxPreset entries of GRADIENTS.
MaxPreset == 2

\* What analyzeImageForStyle resolves with when it has a suggestion.
AiStyleInputs == {[background |-> "linear-gradient(ai)", shadow |-> 60]}

\* How a call of analyzeImageForStyle ends: it throws, it resolves with null,
\* or it resolves with a style.
AiOutcomes ==
  {[kind |-> "throw"], [kind |-> "null"]}
    \cup {[kind |-> "style", style |-> st] : st \in AiStyleInputs}

Init ==
  /\ settings = DEFAULT_SETTINGS
  /\ image = NoImage
  /\ AppIdle
  /\ EditorIdle
  /\ CanvasIdle
  /\ MorandiIdle
  /\ ColorsIdle
  /\ MeshIdle

Frame == UNCHANGED <<canvasVars, morandiVars, colorsVars, meshVars, editorVars>>

UpdateSettings(newSettings) ==
  /\ settings' = handleUpdateSettings(settings, newSettings)
  /\ UNCHANGED <<image, isProcessingAI, aiPending, aiResult>>
  /\ Frame

\* ControlSlider onChange of Canvas Padding, Border Width, Corner Radius, Intensity
SliderChange ==
  \E k \in DOMAIN SliderInputs : \E v \in SliderInputs[k] :
    UpdateSettings([f \in {k} |-> v])

\* ShadowAnglePicker onChange
AngleChange ==
  \E p \in PointerInputs : \E v \in handleInteraction(p.dx, p.dy) :
    UpdateSettings([shadowAngle |-> v])

\* The Zoom slider, rendered with an image and a fixed ratio
ZoomChange ==
  /\ hasImage /\ ~isAuto
  /\ \E v \in ZoomInputs : UpdateSettings([scale |-> v])

\* Preset: Borderless
BorderlessClick == UpdateSettings([DEFAULT_SETTINGS EXCEPT !.inset = 0])

\* Preset: Transparent Background
TransparentClick ==
  UpdateSettings([DEFAULT_SETTINGS EXCEPT !.background = GRADIENTS[1],
                                          !.backgroundType = "preset"])

\* handleAuroraClick
AuroraClick ==
  /\ settings.meshSeed < MaxSeed
  /\ UpdateSettings([backgroundType |-> "mesh", meshSeed |-> settings.meshSeed + 1])

\* The custom colour input
CustomColorChange ==
  \E c \in CustomColorInputs :
    UpdateSettings([background |-> c, backgroundType |-> "custom"])

\* A button of GRADIENTS.map
PresetClick ==
  \E idx \in 1..MaxPreset :
    UpdateSettings([background |-> GRADIENTS[idx], backgroundType |-> "preset"])

\* A mutant of the ratio buttons: the button writes every default setting.
RatioClickWritesDefaults ==
  \E idx \in 1..Len(RATIOS) :
    UpdateSettings([DEFAULT_SETTINGS EXCEPT !.aspectRatio = RATIOS[idx]])

\* A button of RATIOS.map
RatioClick ==
  \E idx \in 1..Len(RATIOS) :
    UpdateSettings([aspectRatio |-> RATIOS[idx], scale |-> 100, panX |-> 0, panY |-> 0])

\* handleReset, from the button rendered with an image
ResetClick ==
  /\ hasImage
  /\ settings' = DEFAULT_SETTINGS
  /\ UNCHANGED <<image, isProcessingAI, aiPending, aiResult>>
  /\ Frame

\* handleImageUpload of a file that is not HEIC, from the drop zone rendered
\* without an image: reader.onload sets the image and resets pan and zoom.
UploadImage ==
  /\ ~hasImage
  /\ \E img \in Images : image' = img
  /\ settings' = handleUpdateSettings(settings, [panX |-> 0, panY |-> 0, scale |-> 100])
  /\ UNCHANGED <<isProcessingAI, aiPending, aiResult>>
  /\ Frame

\* The Remove Image button: onUpload(null)
RemoveImage ==
  /\ hasImage
  /\ image' = NoImage
  /\ UNCHANGED <<settings, isProcessingAI, aiPending, aiResult>>
  /\ Frame

\* handleMagicClick up to its await, from the AI Match button (rendered with an
\* image, disabled while isProcessing).
MagicClick ==
  /\ hasImage /\ ~isProcessingAI
  /\ isProcessingAI' = TRUE
  /\ aiPending' = aiPending + 1
  /\ UNCHANGED <<settings, image, aiResult>>
  /\ Frame

AiPatch(style) ==
  [background |-> style.background, backgroundType |-> "ai", shadow |-> style.shadow]

\* A mutant of the try block: if (result) is dropped, a null result sets the type.
MagicSettingsIgnoresNull(prev, outcome) ==
  IF outcome.kind = "style" THEN handleUpdateSettings(prev, AiPatch(outcome.style))
  ELSE IF outcome.kind = "null" THEN handleUpdateSettings(prev, [backgroundType |-> "ai"])
  ELSE prev

\* settings after the try and catch blocks: handleUpdateSettings is called only
\* with a result, a throw or a null result leaves the state alone.
MagicSettings(prev, outcome) ==
  IF outcome.kind = "style" THEN handleUpdateSettings(prev, AiPatch(outcome.style))
  ELSE prev

\* handleMagicClick from its await on: try, catch and finally.
MagicSettle ==
  /\ aiPending > 0
  /\ \E outcome \in AiOutcomes :
       /\ aiResult' = outcome.kind
       /\ settings' = MagicSettings(settings, outcome)
  /\ isProcessingAI' = FALSE
  /\ aiPending' = aiPending - 1
  /\ UNCHANGED image
  /\ Frame

Next ==
  \/ SliderChange
  \/ AngleChange
  \/ ZoomChange
  \/ BorderlessClick
  \/ TransparentClick
  \/ AuroraClick
  \/ CustomColorChange
  \/ PresetClick
  \/ RatioClick
  \/ ResetClick
  \/ UploadImage
  \/ RemoveImage
  \/ MagicClick
  \/ MagicSettle

Spec == Init /\ [][Next]_vars

MagicFields == {"background", "backgroundType", "shadow"}

\* C10: a step of handleMagicClick whose call threw or returned null leaves
\* settings as it was; a step with a result changes at most background,
\* backgroundType and shadow.
MagicFailureKeepsSettings ==
  [][ (aiPending' # aiPending) =>
        IF aiPending' < aiPending /\ aiResult' = "style"
        THEN \A k \in (DOMAIN settings) \ MagicFields : settings'[k] = settings[k]
        ELSE settings' = settings ]_vars

\* C10 witness: a call has thrown after the user had changed the settings, and
\* the indicator is cleared.
MagicThrewAfterChanges ==
  /\ aiResult = "throw"
  /\ aiPending = 0
  /\ ~isProcessingAI
  /\ settings.padding # DEFAULT_SETTINGS.padding
  /\ settings.aspectRatio # AUTO

----------------------------------------------------------------------------
(* The image life cycle: handleImageUpload with its HEIC conversion and its
   FileReader, the Remove Image button, the effects of [image] in App (palette
   and accent) and in Canvas (decoded size), and the AI style match.  Each
   await and each event handler is a step of its own; settings is followed
   only as far as these handlers write it. *)

\* The files handed to handleImageUpload: the data URL the reader yields and
\* whether file.type or file.name makes it take the HEIC branch.
Files == { [url |-> "img1", heic |-> FALSE], [url |-> "img2", heic |-> TRUE] }

MaxUploads == 2

MaxExtractions == 2

MaxAi == 2

\* What getImageColors samples from each image.
SourceOf(img) ==
  IF img = "img1"
  THEN [decodes |-> TRUE, surface |-> TRUE,
        data |-> <<Pixel(200, 100, 50, 255), Pixel(50, 100, 200, 255)>>]
  ELSE [decodes |-> TRUE, surface |-> TRUE,
        data |-> <<Pixel(50, 100, 200, 255), Pixel(50, 100, 200, 255),
                   Pixel(128, 128, 128, 255)>>]

\* What the promise of getImageColors resolves with, for each image.
ImageColors ==
  [img \in Images |->
     IF SourceOf(img).decodes THEN OnLoadResolution(SourceOf(img))
     ELSE OnErrorResolution]

\* getImageColors(image) as resolved.
getImageColors(img) == ImageColors[img]

\* The effect of [image] in App, run when image has changed to img.
AppImageEffect(img) ==
  IF img = NoImage
  THEN /\ accent' = DEFAULT_ACCENT
       /\ paletteState' = <<>>
       /\ extractions' = extractions
  ELSE /\ extractions' = Append(extractions, img)
       /\ UNCHANGED <<accent, paletteState>>

\* setImage(img) and the effects of [image] that follow the render; setting the
\* value image already has re-runs no effect.
SetImage(img) ==
  /\ image' = img
  /\ IF img = image
     THEN UNCHANGED <<accent, paletteState, extractions, imgDimensions, imgLoading>>
     ELSE AppImageEffect(img) /\ CanvasImageEffect(img)

InitImage ==
  /\ settings = DEFAULT_SETTINGS
  /\ image = NoImage
  /\ AppIdle
  /\ EditorIdle
  /\ imgDimensions = ZeroSize
  /\ imgLoading = NoImage
  /\ containerSize = [width |-> 800, height |-> 600]
  /\ MorandiIdle
  /\ ColorsIdle
  /\ MeshIdle

ImageFrame ==
  UNCHANGED <<containerSize, isPanning, dragStart, shadowStyle,
              morandiVars, colorsVars, meshVars>>

\* handleImageUpload(file) up to its first await or to reader.readAsDataURL,
\* from the drop zone and the file input rendered without an image.
StartUpload ==
  /\ ~hasImage
  /\ Len(uploads) < MaxUploads
  /\ \E file \in Files :
       /\ uploads' = Append(uploads,
                       [url |-> file.url, heic |-> file.heic,
                        stage |-> IF file.heic THEN "converting" ELSE "reading"])
       /\ isProcessingAI' = (IF file.heic THEN TRUE ELSE isProcessingAI)
  /\ UNCHANGED <<settings, image, aiPending, aiResult, paletteState, accent,
                 extractions, imgDimensions, imgLoading>>
  /\ ImageFrame

\* The awaits of the HEIC branch (import('heic2any'), heic2any(...)) settle:
\* the blob goes to a FileReader, or the catch block clears the indicator.
ConvertSettle ==
  \E i \in 1..Len(uploads) : \E ok \in BOOLEAN :
    /\ uploads[i].stage = "converting"
    /\ IF ok
       THEN /\ uploads' = [uploads EXCEPT ![i].stage = "reading"]
            /\ UNCHANGED isProcessingAI
       ELSE /\ uploads' = RemoveAt(uploads, i)
            /\ isProcessingAI' = FALSE
    /\ UNCHANGED <<settings, image, aiPending, aiResult, paletteState, accent,
                   extractions, imgDimensions, imgLoading>>
    /\ ImageFrame

\* isProcessingAI after the FileReader of an upload has finished: onload with
\* a result clears it in the HEIC branch; onload without a result and a read
\* error (no onerror handler) leave it as it is.
ReaderClears(up, outcome) ==
  IF outcome = "result" /\ up.heic THEN FALSE ELSE isProcessingAI

ReaderOutcomes == {"result", "empty", "error"}

\* The FileReader of an upload finishes: reader.onload with e.target.result,
\* reader.onload without it, or an error event.
ReaderSettle ==
  \E i \in 1..Len(uploads) : \E outcome \in ReaderOutcomes :
    /\ uploads[i].stage = "reading"
    /\ outcome = "result" /\ uploads[i].url # image => Len(extractions) < MaxExtractions
    /\ uploads' = RemoveAt(uploads, i)
    /\ isProcessingAI' = ReaderClears(uploads[i], outcome)
    /\ IF outcome = "result"
       THEN /\ SetImage(uploads[i].url)
            /\ settings' = handleUpdateSettings(settings,
                             [panX |-> 0, panY |-> 0, scale |-> 100])
       ELSE UNCHANGED <<image, settings, paletteState, accent, extractions,
                        imgDimensions, imgLoading>>
    /\ UNCHANGED <<aiPending, aiResult>>
    /\ ImageFrame

\* The Remove Image button: handleImageUpload(null).
RemoveImageClick ==
  /\ hasImage
  /\ SetImage(NoImage)
  /\ UNCHANGED <<settings, isProcessingAI, aiPending, aiResult, uploads>>
  /\ ImageFrame

\* The then of a getImageColors promise runs, whatever image is by now.
ExtractionSettle ==
  \E i \in 1..Len(extractions) :
    /\ accent' = getImageColors(extractions[i]).dominant
    /\ paletteState' = getImageColors(extractions[i]).palette
    /\ extractions' = RemoveAt(extractions, i)
    /\ UNCHANGED <<settings, image, isProcessingAI, aiPending, aiResult, uploads,
                   imgDimensions, imgLoading>>
    /\ ImageFrame

\* The AI Match button, with the requests in flight bounded.
MagicClickBounded == aiPending < MaxAi /\ MagicClick

NextImage ==
  \/ StartUpload
  \/ ConvertSettle
  \/ ReaderSettle
  \/ RemoveImageClick
  \/ ExtractionSettle
  \/ ImgOnload
  \/ MagicClickBounded
  \/ MagicSettle

SpecImage == InitImage /\ [][NextImage]_vars

\* Every promise settles and every event of an object under way is delivered;
\* what the user does next is not assumed.
SpecImageFair ==
  /\ SpecImage
  /\ WF_vars(ConvertSettle)
  /\ WF_vars(ReaderSettle)
  /\ WF_vars(ExtractionSettle)
  /\ WF_vars(ImgOnload)
  /\ WF_vars(MagicSettle)

\* C11 as stated: whenever the processing indicator is set, it is cleared again
\* later, on every exit path of the operation that set it.
ProcessingEventuallyCleared == isProcessingAI ~> ~isProcessingAI

\* A HEIC upload whose conversion (import('heic2any'), heic2any(...)) has not
\* settled yet.
ConversionInFlight ==
  \E i \in 1..Len(uploads) : uploads[i].heic /\ uploads[i].stage = "converting"

\* A handleMagicClick call waiting for analyzeImageForStyle.
AiRequestInFlight == aiPending > 0

\* C22 as stated: in every state in which a HEIC conversion or an AI request is
\* still in flight the shared processing indicator is true; the completion of
\* one operation never clears it while another is still running.
IndicatorCoversInFlight ==
  (ConversionInFlight \/ AiRequestInFlight) => isProcessingAI

----------------------------------------------------------------------------
(* meshSeed across the operations of the editor *)

SeedChanges == settings'.meshSeed # settings.meshSeed

SeedIncremented ==
  AuroraClick /\ settings'.meshSeed = settings.meshSeed + 1

SeedReset ==
  ResetClick /\ settings'.meshSeed = DEFAULT_SETTINGS.meshSeed

SeedResetByPreset ==
  /\ BorderlessClick \/ TransparentClick
  /\ settings'.meshSeed = DEFAULT_SETTINGS.meshSeed

\* C12 as stated: meshSeed changes only by a randomize click, which adds 1, and
\* by the full settings reset, which returns it to its default.
SeedOnlyAuroraOrReset ==
  [][SeedChanges => SeedIncremented \/ SeedReset]_vars

\* C12 amended: meshSeed changes only by a randomize click, which adds 1, and by
\* the operations that write every default setting, the full settings reset and
\* the Borderless and Transparent presets, which return it to its default.
SeedOnlyAuroraOrDefaults ==
  [][SeedChanges => SeedIncremented \/ SeedReset \/ SeedResetByPreset]_vars

\* C12 witness: the seed has been incremented, and sliders, a ratio button and
\* an AI match have acted since the settings were last the defaults.
SeedKeptAcrossOperations ==
  /\ settings.meshSeed > DEFAULT_SETTINGS.meshSeed
  /\ settings.padding # DEFAULT_SETTINGS.padding
  /\ settings.aspectRatio # AUTO
  /\ settings.backgroundType = "ai"

----------------------------------------------------------------------------
(* shadowAngle across the operations of the editor *)

\* C13 as stated: in every reachable state shadowAngle lies in [0, 360).
ShadowAngleInRange ==
  settings.shadowAngle >= 0 /\ settings.shadowAngle < 360

----------------------------------------------------------------------------
(* The quantizer of getImageColors *)

\* colorCounts after the loop over the sampled pixels.
colorCounts == QuantizeAndCount(imageSrc.data, 1, <<>>)

\* The three numbers a key spells.
KeyChannels(key) ==
  LET parts == Split(key, ",")
  IN  <<NumberOfPart(parts, 1), NumberOfPart(parts, 2), NumberOfPart(parts, 3)>>

\* v lies in the bucket of 32 values that starts at the whole number lo.
InBucket(v, lo) ==
  /\ lo.d = 1
  /\ lo.n % 32 = 0
  /\ lo.n <= v
  /\ v < lo.n + 32

PixelInBin(px, key) ==
  LET ch == KeyChannels(key)
  IN  Len(Split(key, ",")) = 3
        /\ InBucket(px.r, ch[1]) /\ InBucket(px.g, ch[2]) /\ InBucket(px.b, ch[3])

\* 3 * 60 < r + g + b < 3 * 230 and alpha >= 128
InOpenBand(px) ==
  px.a >= 128 /\ 180 < px.r + px.g + px.b /\ px.r + px.g + px.b < 690

\* 3 * 60 <= r + g + b <= 3 * 230 and alpha >= 128
InClosedBand(px) ==
  px.a >= 128 /\ 180 <= px.r + px.g + px.b /\ px.r + px.g + px.b <= 690

\* The bins hold exactly the pixels that Band admits: every key spells three
\* multiples of 32, its count is the number of admitted pixels of its bucket,
\* no key occurs twice and every admitted pixel has a bin.
BinsHoldExactly(Band(_)) ==
  LET data == imageSrc.data
  IN  /\ \A k \in 1..Len(colorCounts) :
           /\ colorCounts[k].count =
                Cardinality({i \in 1..Len(data) :
                               Band(data[i]) /\ PixelInBin(data[i], colorCounts[k].key)})
           /\ colorCounts[k].count > 0
           /\ \A j \in 1..Len(colorCounts) :
                colorCounts[j].key = colorCounts[k].key => j = k
      /\ \A i \in 1..Len(data) :
           Band(data[i]) =>
             \E k \in 1..Len(colorCounts) : PixelInBin(data[i], colorCounts[k].key)

\* C14 as stated: the pixels counted are those with alpha >= 128 and mean
\* brightness strictly between 60 and 230, each in the bin of its channels
\* floored to multiples of 32.
QuantizerCountsOpenBand == ColorsSampled => BinsHoldExactly(InOpenBand)

\* C14 amended: the pixels counted are those with alpha >= 128 and mean
\* brightness from 60 to 230, both included, each in the bin of its channels
\* floored to multiples of 32; every other pixel is skipped.
QuantizerCountsClosedBand == ColorsSampled => BinsHoldExactly(InClosedBand)

\* C14 witness: a pixel on both thresholds (alpha 128, mean brightness 60) was
\* counted next to a pixel that was skipped.
ThresholdPixelCounted ==
  /\ ColorsSampled
  /\ \E i \in 1..Len(imageSrc.data) : imageSrc.data[i] = Pixel(60, 60, 60, 128)
  /\ \E i \in 1..Len(imageSrc.data) : imageSrc.data[i].a < 128
  /\ \E k \in 1..Len(colorCounts) :
       colorCounts[k].key = <<"3", "2", ",", "3", "2", ",", "3", "2">>

----------------------------------------------------------------------------
(* Canvas: the shadow of the card, computed at each render from settings.shadow
   and settings.shadowAngle. *)

\* const dist = settings.shadow * 0.6
ShadowDist(shadow) == Mul(Whole(shadow), Num(6, 10))

\* settings.shadow * 1.2
ShadowBlur(shadow) == Mul(Whole(shadow), Num(12, 10))

\* -${settings.shadow * 0.1}px
ShadowSpread(shadow) == Neg(Mul(Whole(shadow), Num(1, 10)))

\* A mutant of the alpha: the intensity is divided by 200.
ShadowAlphaSteep(shadow) == Add(Num(15, 100), Num(shadow, 200))

\* 0.15 + settings.shadow / 250
ShadowAlpha(shadow) == Add(Num(15, 100), Num(shadow, 250))

\* The shadow descriptors a render may produce: the offsets are every rounding
\* the enclosures of the cosine and the sine allow.
ShadowStyles(s) ==
  { [offsetX |-> ox, offsetY |-> oy, blurRadius |-> ShadowBlur(s.shadow),
     spreadRadius |-> ShadowSpread(s.shadow), alpha |-> ShadowAlpha(s.shadow)] :
      ox \in RoundScaled(CosDeg(s.shadowAngle), ShadowDist(s.shadow)),
      oy \in RoundScaled(SinDeg(s.shadowAngle), ShadowDist(s.shadow)) }

\* The Intensity slider runs from 0 to 100.
MaxShadow == 100

ShadowInputs == 0..MaxShadow

\* Directions of the shadow: the multiples of 45 degrees the picker can emit.
ShadowAngleInputs == {45 * k : k \in 0..8}

InitShadow ==
  /\ settings \in {[DEFAULT_SETTINGS EXCEPT !.shadow = sh, !.shadowAngle = an] :
                     sh \in ShadowInputs, an \in ShadowAngleInputs}
  /\ image = NoImage
  /\ AppIdle
  /\ EditorIdle
  /\ CanvasIdle
  /\ MorandiIdle
  /\ ColorsIdle
  /\ MeshIdle

ShadowFrame ==
  UNCHANGED <<image, isProcessingAI, aiPending, aiResult, canvasVars, asyncVars,
              dragVars, morandiVars, colorsVars, meshVars>>

\* The first render of Canvas.
CanvasRender ==
  /\ shadowStyle = <<>>
  /\ shadowStyle' \in ShadowStyles(settings)
  /\ UNCHANGED settings
  /\ ShadowFrame

\* The Intensity slider changes settings.shadow and Canvas renders again.
IntensityChange ==
  /\ shadowStyle # <<>>
  /\ \E sh \in ShadowInputs :
       /\ settings' = handleUpdateSettings(settings, [shadow |-> sh])
       /\ shadowStyle' \in ShadowStyles(settings')
  /\ ShadowFrame

NextShadow == CanvasRender \/ IntensityChange

SpecShadow == InitShadow /\ [][NextShadow]_vars

\* C15: for every intensity in [0, 100] the descriptor has blurRadius 1.2 * shadow,
\* spreadRadius -0.1 * shadow and alpha 0.15 + shadow / 250 within [0.15, 0.55];
\* for shadow 40 and shadowAngle 135 it is -17, 17, 48, -4 and 0.31.
ShadowDescriptor ==
  shadowStyle # <<>> =>
    /\ Mul(shadowStyle.blurRadius, Whole(10)) = Whole(12 * settings.shadow)
    /\ Mul(shadowStyle.spreadRadius, Whole(10)) = Whole(-settings.shadow)
    /\ Mul(Sub(shadowStyle.alpha, Num(15, 100)), Whole(250)) = Whole(settings.shadow)
    /\ Le(Num(15, 100), shadowStyle.alpha)
    /\ Le(shadowStyle.alpha, Num(55, 100))
    /\ (settings.shadow = 40 /\ settings.shadowAngle = 135) =>
         shadowStyle = [offsetX |-> -17, offsetY |-> 17, blurRadius |-> Whole(48),
                        spreadRadius |-> Whole(-4), alpha |-> Num(31, 100)]

\* C15 witness: the descriptor rendered for shadow 40 and shadowAngle 135, and
\* the one for the full intensity.
ScenarioCRendered ==
  /\ shadowStyle # <<>>
  /\ settings.shadow = 40
  /\ settings.shadowAngle = 135
  /\ shadowStyle.offsetX = -17

----------------------------------------------------------------------------
(* The palette, the accent and the decoded size against the current image *)

\* C16 as stated: once no extraction is pending, the palette and the accent are
\* those of the current image, or the empty palette and the default accent when
\* there is no image.
PaletteOfCurrentImage ==
  extractions = <<>> =>
    IF image = NoImage
    THEN paletteState = <<>> /\ accent = DEFAULT_ACCENT
    ELSE /\ paletteState = getImageColors(image).palette
         /\ accent = getImageColors(image).dominant

\* C17 as stated: the stored natural size is zero or the natural size of the
\* current image.
SizeOfCurrentImage ==
  \/ imgDimensions = ZeroSize
  \/ image # NoImage /\ imgDimensions = NaturalSize(image)

----------------------------------------------------------------------------
(* Canvas: drag to reposition.  The card (onMouseDown, onMouseMove) is rendered
   with an image; the container takes onMouseUp and onMouseLeave. *)

\* clientX and clientY of the pointer events.
PointerXs == {0, 10}

PointerYs == {0, 5}

\* The pan is followed up to this distance from the centre.
MaxPan == 10

InitDrag ==
  /\ settings = DEFAULT_SETTINGS
  /\ image = NoImage
  /\ AppIdle
  /\ EditorIdle
  /\ CanvasIdle
  /\ MorandiIdle
  /\ ColorsIdle
  /\ MeshIdle

DragFrame ==
  UNCHANGED <<image, isProcessingAI, aiPending, aiResult, canvasVars, asyncVars,
              shadowStyle, morandiVars, colorsVars, meshVars>>

\* handleMouseDown
CardMouseDown ==
  /\ hasImage
  /\ \E x \in PointerXs, y \in PointerYs :
       dragStart' = [x |-> x, y |-> y, pX |-> settings.panX, pY |-> settings.panY]
  /\ isPanning' = TRUE
  /\ UNCHANGED settings
  /\ DragFrame

\* The pan handleMouseMove passes to updateSettings for a pointer at (x, y).
DragPan(x, y) ==
  [panX |-> dragStart.pX + (x - dragStart.x),
   panY |-> dragStart.pY + (y - dragStart.y)]

\* A mutant of handleMouseMove: if (!isPanning) return is dropped.
MouseMoveSettingsAlways(x, y) == handleUpdateSettings(settings, DragPan(x, y))

\* settings after handleMouseMove for a pointer at (x, y).
MouseMoveSettings(x, y) ==
  IF ~isPanning THEN settings ELSE handleUpdateSettings(settings, DragPan(x, y))

\* handleMouseMove, on the card
CardMouseMove ==
  /\ hasImage
  /\ \E x \in PointerXs, y \in PointerYs :
       /\ settings' = MouseMoveSettings(x, y)
       /\ Abs(settings'.panX) <= MaxPan
       /\ Abs(settings'.panY) <= MaxPan
  /\ UNCHANGED <<isPanning, dragStart>>
  /\ DragFrame

\* handleMouseUp from onMouseUp of the container
ContainerMouseUp ==
  /\ isPanning' = FALSE
  /\ UNCHANGED <<settings, dragStart>>
  /\ DragFrame

\* handleMouseUp from onMouseLeave of the container
ContainerMouseLeave ==
  /\ isPanning' = FALSE
  /\ UNCHANGED <<settings, dragStart>>
  /\ DragFrame

NextDrag ==
  \/ CardMouseDown
  \/ CardMouseMove
  \/ ContainerMouseUp
  \/ ContainerMouseLeave
  \/ UploadImage
  \/ RemoveImage
  \/ RatioClick

SpecDrag == InitDrag /\ [][NextDrag]_vars

PanChanges ==
  settings'.panX # settings.panX \/ settings'.panY # settings.panY

\* The pan after the step is the pan at drag start plus the displacement of some
\* pointer position from the position at drag start.
PanFollowsPointer ==
  \E x \in PointerXs, y \in PointerYs :
    /\ settings'.panX = dragStart.pX + (x - dragStart.x)
    /\ settings'.panY = dragStart.pY + (y - dragStart.y)

\* C18: dragging is entered only by a pointer-down on the card with an image
\* present, which records the pointer and the pan, and is left only by pointer-up
\* or pointer-leave; the pan changes by a pointer-move only while dragging, to the
\* pan at drag start plus the displacement, and otherwise only by the operations
\* that reset it to 0 (a ratio button, an upload).
DragStateMachine ==
  [][ /\ (~isPanning /\ isPanning') =>
           /\ hasImage
           /\ settings' = settings
           /\ dragStart'.pX = settings.panX /\ dragStart'.pY = settings.panY
           /\ dragStart'.x \in PointerXs /\ dragStart'.y \in PointerYs
      /\ (isPanning /\ ~isPanning') => settings' = settings /\ dragStart' = dragStart
      /\ (dragStart' # dragStart) => isPanning'
      /\ PanChanges =>
           \/ isPanning /\ isPanning' /\ hasImage /\ PanFollowsPointer
           \/ settings'.panX = 0 /\ settings'.panY = 0 /\ isPanning' = isPanning
    ]_vars

\* C18 witness: while dragging, the card has been moved by a pointer-move from
\* a pan that an earlier drag had left.
DraggedFromEarlierPan ==
  /\ isPanning
  /\ dragStart.pX # 0
  /\ settings.panX # dragStart.pX
  /\ settings.panY # dragStart.pY

----------------------------------------------------------------------------
(* The distinctness selector of getImageColors, on images with more buckets
   than the palette has slots and with buckets whose transforms coincide. *)

\* Pixels of seven buckets; the first two buckets, 0,0,224 and 32,32,192, have
\* the same transform.
SelectorPixels ==
  << Pixel(10, 10, 230, 255), Pixel(40, 40, 200, 255), Pixel(200, 100, 50, 255),
     Pixel(50, 100, 200, 255), Pixel(128, 128, 128, 255), Pixel(10, 170, 170, 255),
     Pixel(200, 60, 200, 255) >>

\* How often each of the first three pixels may occur in an image; each of the
\* others occurs at most once.
MaxRepeat == 2

RepeatLimit(k) == IF k <= 3 THEN MaxRepeat ELSE 1

Repeat(px, n) == [i \in 1..n |-> px]

\* The sampled data with c[k] copies of pixel k, from pixel k on.
RECURSIVE SelectorData(_, _)
SelectorData(c, k) ==
  IF k > Len(SelectorPixels) THEN <<>>
  ELSE Repeat(SelectorPixels[k], c[k]) \o SelectorData(c, k + 1)

InitSelector ==
  /\ imageSrc \in {[decodes |-> TRUE, surface |-> TRUE, data |-> SelectorData(c, 1)] :
                     c \in {f \in [1..Len(SelectorPixels) -> 0..MaxRepeat] :
                              \A k \in 1..Len(SelectorPixels) : f[k] <= RepeatLimit(k)}}
  /\ imgEvent = "none"
  /\ colorsPromise = PendingPromise
  /\ settings = DEFAULT_SETTINGS
  /\ image = NoImage
  /\ AppIdle
  /\ EditorIdle
  /\ CanvasIdle
  /\ MorandiIdle
  /\ MeshIdle

SpecSelector == InitSelector /\ [][ColorsOnLoad]_vars

Distinct(seq) == {seq[i] : i \in 1..Len(seq)}

\* The first position of colour c in seq.
FirstPosition(seq, c) ==
  CHOOSE i \in 1..Len(seq) : seq[i] = c /\ \A j \in 1..(i - 1) : seq[j] # c

\* C19: the first min(5, distinct transforms) entries of the palette are pairwise
\* different, are the distinct transforms in descending bucket-frequency order
\* starting with the transform of the most frequent bucket, which is the dominant
\* colour; the other entries are the fallback list from its first entry on.
SelectorKeepsDistinctInOrder ==
  ColorsSampled =>
    LET pal == colorsPromise.palette
        counts == colorCounts
        sorted == SortByCount(counts)
        tf == [i \in 1..Len(sorted) |-> KeyToMorandi(sorted[i].key)]
        n == IF Cardinality(Distinct(tf)) < 5 THEN Cardinality(Distinct(tf)) ELSE 5
        pos == [k \in 1..n |-> FirstPosition(tf, pal[k])]
    IN  /\ Len(pal) = 5
        /\ \A i, j \in 1..Len(sorted) : i < j => sorted[i].count >= sorted[j].count
        /\ \A k \in 1..Len(counts) : \E i \in 1..Len(sorted) : sorted[i] = counts[k]
        /\ \A i, j \in 1..n : pal[i] = pal[j] => i = j
        /\ \A k \in 1..n : pal[k] \in Distinct(tf)
        /\ \A k \in 1..n : \A j \in 1..(k - 1) : pos[j] < pos[k]
        /\ \A k \in 1..n : \A i \in 1..(pos[k] - 1) : \E j \in 1..(k - 1) : pal[j] = tf[i]
        /\ n > 0 => pal[1] = tf[1]
        /\ colorsPromise.dominant = pal[1]
        /\ \A k \in 1..(5 - n) : pal[n + k] = defaultMorandi[((k - 1) % 5) + 1]

\* C19 witness: six distinct transforms among seven buckets, so that a bucket
\* was passed over as a duplicate and another for want of a slot.
DuplicateAndSixthPassedOver ==
  /\ ColorsSampled
  /\ Len(colorCounts) = 7
  /\ colorCounts[1].count = 2
  /\ colorCounts[2].count = 2
  /\ \A k \in 3..7 : colorCounts[k].count = 1
  /\ \A i, j \in 1..5 :
       colorsPromise.palette[i] = colorsPromise.palette[j] => i = j

----------------------------------------------------------------------------
(* settings.aspectRatio across the operations of the editor *)

\* The string spells W/H with positive whole numbers W and H.
PositiveRatio(str) ==
  LET parts == Split(str, "/")
  IN  /\ Len(parts) = 2
      /\ \A k \in 1..2 :
           /\ Len(parts[k]) > 0
           /\ \A i \in 1..Len(parts[k]) : DigitValue(parts[k][i]) >= 0
           /\ DecimalValue(parts[k], 1, 0) > 0

\* C20: in every state reachable through the operations of the editor,
\* aspectRatio is 'auto' or W/H with positive whole numbers, and the layout of
\* any decoded image under the settings has finite dimensions that are not
\* negative.
AspectRatioWellFormed ==
  /\ settings.aspectRatio = AUTO \/ PositiveRatio(settings.aspectRatio)
  /\ \A img \in Images :
       LET l == Layout(settings, NaturalSize(img), img)
       IN  \A f \in {"exportW", "exportH", "cardW", "cardH"} :
             IsFinite(l[f]) /\ l[f].n > 0

\* C20 witness: a fixed ratio chosen, then sliders and the zoom moved and an AI
\* match applied.
FixedRatioAfterOperations ==
  /\ settings.aspectRatio = RATIOS[4]
  /\ settings.scale # 100
  /\ settings.padding = 0
  /\ settings.backgroundType = "ai"

====
